---------------------------- MODULE Spec2Model ----------------------------
(***************************************************************************)
(* A model of vectome's vectorization core (src/vectome/vectorize.py):     *)
(* the 64-bit hash mixer, the bucket/sign derivation, the CountSketch and  *)
(* landmark vectorizers, and the cached, optionally projected `vectorize`  *)
(* pipeline.                                                               *)
(*                                                                         *)
(* Number representations                                                  *)
(*   - a 64-bit unsigned integer is a tuple of 8 bytes, least significant  *)
(*     byte first (the layout of int.to_bytes(8, "little")); Python's      *)
(*     unbounded intermediate products are longer byte tuples that the     *)
(*     code's `& 0xFFFFFFFFFFFFFFFF` cuts back to 8 bytes;                 *)
(*   - a 32-bit SHA-1 word is a pair <<high 16 bits, low 16 bits>>;        *)
(*   - a float is an exact real <<n, d, r>> standing for n / (d * sqrt r). *)
(***************************************************************************)
EXTENDS Integers, Sequences, FiniteSets, TLC

(***************************************************************************)
(* Bit operations on natural numbers.                                      *)
(***************************************************************************)
RECURSIVE BitXor(_, _)
BitXor(a, b) ==
    IF a = 0 THEN b
    ELSE IF b = 0 THEN a
    ELSE ((a + b) % 2) + 2 * BitXor(a \div 2, b \div 2)

RECURSIVE BitAnd(_, _)
BitAnd(a, b) ==
    IF a = 0 \/ b = 0 THEN 0
    ELSE ((a % 2) * (b % 2)) + 2 * BitAnd(a \div 2, b \div 2)

RECURSIVE BitOr(_, _)
BitOr(a, b) ==
    IF a = 0 THEN b
    ELSE IF b = 0 THEN a
    ELSE (IF (a % 2) + (b % 2) > 0 THEN 1 ELSE 0) + 2 * BitOr(a \div 2, b \div 2)

RECURSIVE Pow2(_)
Pow2(n) == IF n = 0 THEN 1 ELSE 2 * Pow2(n - 1)

(***************************************************************************)
(* Unbounded-width naturals as little-endian byte tuples.                  *)
(***************************************************************************)
ByteAt(x, k) == IF k >= 1 /\ k <= Len(x) THEN x[k] ELSE 0

Max(a, b) == IF a >= b THEN a ELSE b

\* Python's int ^ int
RECURSIVE XorFrom(_, _, _)
XorFrom(x, y, acc) ==
    IF Len(acc) = Max(Len(x), Len(y)) THEN acc
    ELSE LET k == Len(acc) + 1
         IN  XorFrom(x, y, Append(acc, BitXor(ByteAt(x, k), ByteAt(y, k))))

XorBytes(x, y) == XorFrom(x, y, <<>>)

\* Python's x & 0xFFFFFFFFFFFFFFFF
Mask64(x) ==
    <<ByteAt(x, 1), ByteAt(x, 2), ByteAt(x, 3), ByteAt(x, 4),
      ByteAt(x, 5), ByteAt(x, 6), ByteAt(x, 7), ByteAt(x, 8)>>

\* Python's x >> n
RECURSIVE ShiftFrom(_, _, _)
ShiftFrom(x, n, acc) ==
    IF Len(acc) = Len(x) THEN acc
    ELSE LET k == Len(acc) + 1
             q == n \div 8
             r == n % 8
         IN  ShiftFrom(x, n, Append(acc,
                 (ByteAt(x, k + q) \div Pow2(r))
                 + (ByteAt(x, k + q + 1) % Pow2(r)) * Pow2(8 - r)))

ShiftRight(x, n) == ShiftFrom(x, n, <<>>)

\* column k (1-based) of the schoolbook product of x and y
RECURSIVE MulColumn(_, _, _, _)
MulColumn(x, y, k, i) ==
    IF i > k THEN 0
    ELSE ByteAt(x, i) * ByteAt(y, k + 1 - i) + MulColumn(x, y, k, i + 1)

RECURSIVE MulFrom(_, _, _, _, _)
MulFrom(x, y, k, carry, acc) ==
    IF k > Len(x) + Len(y) THEN acc
    ELSE LET s == MulColumn(x, y, k, 1) + carry
         IN  MulFrom(x, y, k + 1, s \div 256, Append(acc, s % 256))

\* Python's x * y
MulBytes(x, y) == MulFrom(x, y, 1, 0, <<>>)

\* a small natural as a byte tuple (int.to_bytes(width, "little"))
RECURSIVE ToBytes(_, _)
ToBytes(n, width) ==
    IF width = 0 THEN <<>> ELSE <<n % 256>> \o ToBytes(n \div 256, width - 1)

\* Python's x % m for a small positive m
RECURSIVE ModFrom(_, _, _, _)
ModFrom(x, m, k, r) ==
    IF k = 0 THEN r ELSE ModFrom(x, m, k - 1, (r * 256 + x[k]) % m)

ModBytes(x, m) == ModFrom(x, m, Len(x), 0)

(***************************************************************************)
(* SHA-1 (hashlib.sha1) on one 512-bit block, words as <<hi16, lo16>>.     *)
(***************************************************************************)
Xor32(a, b) == <<BitXor(a[1], b[1]), BitXor(a[2], b[2])>>
And32(a, b) == <<BitAnd(a[1], b[1]), BitAnd(a[2], b[2])>>
Or32(a, b)  == <<BitOr(a[1], b[1]), BitOr(a[2], b[2])>>
Not32(a)    == <<65535 - a[1], 65535 - a[2]>>

Add32(a, b) ==
    LET lo == a[2] + b[2]
        hi == a[1] + b[1] + (lo \div 65536)
    IN  <<hi % 65536, lo % 65536>>

\* rotate left by n, 0 < n < 32
Rotl32(a, n) ==
    LET w == IF n >= 16 THEN <<a[2], a[1]>> ELSE a
        m == n % 16
    IN  IF m = 0 THEN w
        ELSE <<((w[1] * Pow2(m)) % 65536) + (w[2] \div Pow2(16 - m)),
               ((w[2] * Pow2(m)) % 65536) + (w[1] \div Pow2(16 - m))>>

\* the padded block of a message shorter than 56 bytes, as 64 bytes
Sha1Pad(msg) ==
    LET bits == 8 * Len(msg)
    IN  [k \in 1..64 |->
            IF k <= Len(msg) THEN msg[k]
            ELSE IF k = Len(msg) + 1 THEN 128
            ELSE IF k = 63 THEN bits \div 256
            ELSE IF k = 64 THEN bits % 256
            ELSE 0]

\* big-endian word t (0-based) of a 64-byte block
Sha1Word(block, t) ==
    <<block[4 * t + 1] * 256 + block[4 * t + 2],
      block[4 * t + 3] * 256 + block[4 * t + 4]>>

RECURSIVE Sha1Schedule(_)
Sha1Schedule(w) ==
    IF Len(w) = 80 THEN w
    ELSE LET t == Len(w) + 1   \* 1-based index of the word to add
             x == Xor32(Xor32(w[t - 3], w[t - 8]), Xor32(w[t - 14], w[t - 16]))
         IN  Sha1Schedule(Append(w, Rotl32(x, 1)))

Sha1F(t, b, c, d) ==
    IF t < 20 THEN Or32(And32(b, c), And32(Not32(b), d))
    ELSE IF t < 40 THEN Xor32(Xor32(b, c), d)
    ELSE IF t < 60 THEN Or32(Or32(And32(b, c), And32(b, d)), And32(c, d))
    ELSE Xor32(Xor32(b, c), d)

Sha1K(t) ==
    IF t < 20 THEN <<\h5A82, \h7999>>
    ELSE IF t < 40 THEN <<\h6ED9, \hEBA1>>
    ELSE IF t < 60 THEN <<\h8F1B, \hBCDC>>
    ELSE <<\hCA62, \hC1D6>>

Sha1Init ==
    << <<\h6745, \h2301>>, <<\hEFCD, \hAB89>>, <<\h98BA, \hDCFE>>,
       <<\h1032, \h5476>>, <<\hC3D2, \hE1F0>> >>

\* the 80 rounds; st = <<round, a, b, c, d, e>>
RECURSIVE Sha1Rounds(_, _)
Sha1Rounds(w, st) ==
    IF st[1] = 80 THEN st
    ELSE LET t == st[1]
             tmp == Add32(Add32(Add32(Rotl32(st[2], 5), Sha1F(t, st[3], st[4], st[5])),
                                Add32(st[6], Sha1K(t))),
                          w[t + 1])
         IN  Sha1Rounds(w, <<t + 1, tmp, st[2], Rotl32(st[3], 30), st[4], st[5]>>)

\* the digest as five 32-bit words, most significant first
Sha1(msg) ==
    LET block == Sha1Pad(msg)
        w == Sha1Schedule([t \in 1..16 |-> Sha1Word(block, t - 1)])
        st == Sha1Rounds(w, <<0>> \o Sha1Init)
    IN  [i \in 1..5 |-> Add32(Sha1Init[i], st[i + 1])]

(***************************************************************************)
(* vectorize.py: the hash mixer and the bucket/sign deriver.               *)
(***************************************************************************)
MixMul1 == <<\hcd, \h8c, \h55, \hed, \hd7, \haf, \h51, \hff>>  \* 0xff51afd7ed558ccd
MixMul2 == <<\h53, \hec, \h85, \h1a, \hfe, \hb9, \hce, \hc4>>  \* 0xc4ceb9fe1a85ec53
Golden  == <<\h15, \h7c, \h4a, \h7f, \hb9, \h79, \h37, \h9e>>  \* 0x9E3779B97F4A7C15

\* a faulty variant of XorShift33: a fold by 32 bits
XorShift32(x) == XorBytes(x, ShiftRight(x, 32))

XorShift33(x) == XorBytes(x, ShiftRight(x, 33))

_mix_u64(x) ==
    LET x0 == Mask64(x)
        x1 == XorShift33(x0)
        x2 == Mask64(MulBytes(x1, MixMul1))
        x3 == XorShift33(x2)
        x4 == Mask64(MulBytes(x3, MixMul2))
        x5 == XorShift33(x4)
    IN  Mask64(x5)

\* a faulty variant of _bucket_index: salt * K instead of (salt + 1) * K
_bucket_index_salt_times(h, dim, salt) ==
    LET y == Mask64(XorBytes(h, MulBytes(ToBytes(salt, 1), Golden)))
    IN  ModBytes(y, dim)

_bucket_index(h, dim, salt) ==
    LET y == Mask64(XorBytes(h, MulBytes(ToBytes(salt + 1, 1), Golden)))
    IN  ModBytes(y, dim)

_bucket_sign(h, salt) ==
    LET b == h \o ToBytes(salt, 4)
        digest == Sha1(b)
    IN  IF digest[5][2] % 2 = 1 THEN 1 ELSE -1

(***************************************************************************)
(* Exact reals: <<n, d, r>> is n / (d * sqrt(r)), d >= 1, r >= 1.          *)
(***************************************************************************)
\* an optional integer is <<>> (None) or <<value>>
None == <<>>
Some(value) == <<value>>

Abs(a) == IF a < 0 THEN -a ELSE a

RECURSIVE Gcd(_, _)
Gcd(a, b) == IF b = 0 THEN a ELSE Gcd(b, a % b)

Real(n, d, r) == LET g == Gcd(Abs(n), d) IN <<n \div g, d \div g, r>>

RMul(p, q) == Real(p[1] * q[1], p[2] * q[2], p[3] * q[3])

\* sum of two reals over the same radicand
RAdd(p, q) == Real(p[1] * q[2] + q[1] * p[2], p[2] * q[2], p[3])

(***************************************************************************)
(* numpy arrays of one dimension: the length and the nonzero coordinates   *)
(* (0-based index |-> value); every other coordinate is 0.0.               *)
(***************************************************************************)
NoEntries == [j \in {} |-> 0]

\* np.zeros((n,))
Zeros(n) == [len |-> n, nz |-> NoEntries]

At(v, k) == IF k \in DOMAIN v.nz THEN v.nz[k] ELSE 0

\* a faulty variant of AddAt: the sum is clipped to [-1, 1]
AddAtClipped(v, k, s) ==
    LET c == IF At(v, k) + s > 1 THEN 1 ELSE IF At(v, k) + s < -1 THEN -1 ELSE At(v, k) + s
        D == IF c = 0 THEN (DOMAIN v.nz) \ {k} ELSE (DOMAIN v.nz) \cup {k}
    IN  [v EXCEPT !.nz = [j \in D |-> IF j = k THEN c ELSE v.nz[j]]]

\* v[k] += s, on whole-number floats
AddAt(v, k, s) ==
    LET c == At(v, k) + s
        D == IF c = 0 THEN (DOMAIN v.nz) \ {k} ELSE (DOMAIN v.nz) \cup {k}
    IN  [v EXCEPT !.nz = [j \in D |-> IF j = k THEN c ELSE v.nz[j]]]

RECURSIVE SumSqOver(_, _)
SumSqOver(f, S) ==
    IF S = {} THEN 0
    ELSE LET k == CHOOSE j \in S : TRUE
         IN  f[k] * f[k] + SumSqOver(f, S \ {k})

\* the square of np.linalg.norm(v), v holding whole numbers
Norm2(v) == SumSqOver(v.nz, DOMAIN v.nz)

\* a faulty variant of Divide: by the norm's square instead of the norm
DivideBySquare(v, n2) ==
    IF n2 = 0 THEN [len |-> v.len, nz |-> NoEntries, nan |-> TRUE]
    ELSE [v EXCEPT !.nz = [j \in DOMAIN v.nz |-> Real(v.nz[j], n2, 1)]]

\* v /= sqrt(n2); numpy's 0.0 / 0.0 is nan in every coordinate
Divide(v, n2) ==
    IF n2 = 0 THEN [len |-> v.len, nz |-> NoEntries, nan |-> TRUE]
    ELSE [v EXCEPT !.nz = [j \in DOMAIN v.nz |-> Real(v.nz[j], 1, n2)]]

(***************************************************************************)
(* The bounded universe of fingerprints and sketches.                      *)
(***************************************************************************)
MaxHashFns == 3

Salts == 0..(MaxHashFns - 1)

FpA == <<\h34, \h12, 0, 0, 0, 0, 0, 0>>                       \* 0x1234
FpB == <<\hef, \hbe, 0, 0, 0, 0, 0, 0>>                       \* 0xBEEF
FpC == <<\hf0, \hde, \hbc, \h9a, \h78, \h56, \h34, \h12>>     \* 0x123456789ABCDEF0

Fingerprints == {FpA, FpB, FpC}

\* the effective dims the model's calls use
BucketDims == {1, 2, 16, 4096}

\* per fingerprint and salt: hk, its sign, and its bucket for each dim
Derived ==
    [b \in Fingerprints |->
        [i \in Salts |->
            LET hk == _mix_u64(XorBytes(b, ToBytes(i, 1)))
            IN  [hk   |-> hk,
                 sign |-> _bucket_sign(hk, i),
                 idx  |-> [d \in BucketDims |-> _bucket_index(hk, d, i)]]]]

\* a sketch (sourmash MinHash) is the sequence in which its .hashes presents
\* its distinct fingerprints
RECURSIVE ListsOver(_)
ListsOver(S) ==
    {<<>>} \cup UNION {{<<b>> \o rest : rest \in ListsOver(S \ {b})} : b \in S}

HashLists == ListsOver(Fingerprints)

RECURSIVE AsSet(_)
AsSet(list) == IF list = <<>> THEN {} ELSE {Head(list)} \cup AsSet(Tail(list))

\* MinHash.similarity (Jaccard index of two sketches below their size cap)
Similarity(mh, other) ==
    Real(Cardinality(AsSet(mh) \cap AsSet(other)),
         Max(1, Cardinality(AsSet(mh) \cup AsSet(other))), 1)

(***************************************************************************)
(* _vectorize_landmark and _vectorize_countsketch.                         *)
(***************************************************************************)
DefaultDim == 4096
DefaultNumHashFns == 3

\* Python's `dim or 4096`
DimOrDefault(dim) == IF dim = None \/ dim = Some(0) THEN DefaultDim ELSE dim[1]

\* a faulty variant of _vectorize_landmark: the reverse of the landmark order
_vectorize_landmark_reversed(mh, landmark_mh) ==
    [k \in 1..Len(landmark_mh) |->
        Similarity(mh, landmark_mh[Len(landmark_mh) + 1 - k])]

\* the list comprehension of vectorize.py:90, over the landmark sketches
_vectorize_landmark(mh, landmark_mh) ==
    [k \in 1..Len(landmark_mh) |-> Similarity(mh, landmark_mh[k])]

\* the body of the inner loop: one signed unit added to one bucket
Contribution(hash, i, dim) ==
    LET base == Mask64(hash)
    IN  [hash |-> hash, salt |-> i,
         idx |-> Derived[base][i].idx[dim], sign |-> Derived[base][i].sign]

\* a faulty variant of Accumulate: vector[idx] = sign
AccumulateOverwrite(vec, hash, i, dim) ==
    LET c == Contribution(hash, i, dim)
    IN  [vec EXCEPT !.nz = [j \in (DOMAIN vec.nz) \cup {c.idx} |->
                                IF j = c.idx THEN c.sign ELSE vec.nz[j]]]

Accumulate(vec, hash, i, dim) ==
    LET c == Contribution(hash, i, dim) IN AddAt(vec, c.idx, c.sign)

\* a faulty variant of NormPositive: `if vector_norm >= 0`
NormNotNegative(n2) == n2 >= 0

\* `if vector_norm > 0`
NormPositive(n2) == n2 > 0

Normalize(vec) ==
    LET n2 == Norm2(vec) IN IF NormPositive(n2) THEN Divide(vec, n2) ELSE vec

RECURSIVE CountsketchLoop(_, _, _, _, _, _)
CountsketchLoop(vec, hashes, h, i, num_hash_fns, dim) ==
    IF h > Len(hashes) THEN vec
    ELSE IF i < num_hash_fns
         THEN CountsketchLoop(Accumulate(vec, hashes[h], i, dim),
                              hashes, h, i + 1, num_hash_fns, dim)
         ELSE CountsketchLoop(vec, hashes, h + 1, 0, num_hash_fns, dim)

\* the whole call: [ok |-> TRUE, value |-> vector] or [ok |-> FALSE, exc |-> name]
_vectorize_countsketch(mh, dim, num_hash_fns) ==
    LET d == DimOrDefault(dim)
    IN  IF d < 0 THEN [ok |-> FALSE, exc |-> "ValueError"]
        ELSE [ok |-> TRUE,
              value |-> Normalize(CountsketchLoop(Zeros(d), mh, 1, 0,
                                                  num_hash_fns, d))]

(***************************************************************************)
(* State.                                                                  *)
(*                                                                         *)
(* One call of a vectorizer function, step by step (specification          *)
(* SpecVec): its arguments f_in, its position f_pc, its locals and what it *)
(* returned or raised.                                                     *)
(***************************************************************************)
VARIABLES
    f_in,         \* the arguments of the call
    f_pc,         \* "call", "loop", "returned" or "raised"
    cs_dim,       \* the local `dim` after `dim or 4096`
    vector,       \* the local `vector`
    pos,          \* <<index of the hash in .hashes, i>>: the loops' position
    vector_norm2, \* the square of the local `vector_norm`, None before it is set
    divided,      \* whether `vector /= vector_norm` ran
    f_log,        \* the increments made so far, in order
    f_out         \* the value returned, or the exception raised

fvars == <<f_in, f_pc, cs_dim, vector, pos, vector_norm2, divided, f_log, f_out>>

(***************************************************************************)
(* The `vectorize` pipeline (specification Spec): what outlives a call     *)
(* (the joblib store of vectors, the downloaded genomes, the landmark set  *)
(* on disk), the locals of the call in progress, and the calls that        *)
(* returned so far.                                                        *)
(***************************************************************************)
VARIABLES
    mem,          \* joblib.Memory: per wrapped function, the stored [key, value]
    fetched,      \* the queries whose API answers and genome files are cached
    landmarks,    \* group |-> the landmark sketches on disk, in manifest order
    ncalls,       \* the number of vectorize calls made
    history,      \* the calls that returned: [args, batch, out], in order
    args,         \* the arguments of the call in progress
    pc,           \* its position
    genome_info,  \* the local `genome_info`
    query_mh,     \* the local `query_mh`
    vectors,      \* the per-query vectors, then the stacked batch
    generator,    \* the local `generator`
    projector,    \* the local `projector`
    out,          \* the batch returned, or the exception raised
    attempts,     \* the resolutions the call in progress has attempted
    computed      \* the vectorizer runs that completed, in order

\* the two records kept about what ran
hvars == <<attempts, computed>>

pvars == <<mem, fetched, landmarks, ncalls, history, args, pc, genome_info,
           query_mh, vectors, generator, projector, out, hvars>>

(***************************************************************************)
(* Three smaller machines, each followed on its own: two requests racing   *)
(* for one entry of the vector store (SpecRace), one evaluation of the     *)
(* hash helpers (SpecHash), and one call of an api_get-wrapped function    *)
(* (SpecHttp).                                                             *)
(***************************************************************************)
VARIABLES
    r_req,        \* the request both processes make: [fn, mh, kwargs]
    r_pc,         \* process |-> its position in the memoized call
    r_val         \* process |-> the vector it loaded or computed

rvars == <<r_req, r_pc, r_val>>

VARIABLES
    m_in,         \* the arguments: [x, dim, salt]
    m_pc,         \* "call", "mixed" or "indexed"
    m_hk,         \* _mix_u64(x)
    m_idx         \* _bucket_index(hk, dim, salt)

mvars == <<m_in, m_pc, m_hk, m_idx>>

VARIABLES
    a_cfg,        \* the decorator's arguments
    a_memo,       \* functools.cache of the wrapped call: the queries it holds
    a_disk,       \* joblib store of api_call: the keys it holds
    a_pc,         \* "idle", "get", "returned" or "raised"
    a_try,        \* the local `_try` of the innermost api_call
    a_query,      \* the local `query` of the innermost api_call
    a_params,     \* the local `params` of the innermost api_call, merged
    a_sent,       \* what this invocation did, in order: requests and calls of f
    a_out         \* what the invocation returned or raised

avars == <<a_cfg, a_memo, a_disk, a_pc, a_try, a_query, a_params, a_sent, a_out>>

VARIABLES
    s_fs,         \* the signature files: what each sketch_file holds
    s_memo,       \* functools.cache of sketch_genome: the keys it holds
    s_pc,         \* "idle", "test", "write", "returned" or "raised"
    s_key,        \* the arguments of the outer call
    s_start,      \* what the outer call's sketch_file held when it was called
    s_depth,      \* 0 in the outer call, 1 in the call made by the fallback
    s_force,      \* the local `force` of the innermost call
    s_dir,        \* the local `cache_dir` of the innermost call, after line 24
    s_log,        \* what this invocation did, in order
    s_out         \* what the invocation returned or raised

svars == <<s_fs, s_memo, s_pc, s_key, s_start, s_depth, s_force, s_dir, s_log, s_out>>

ovars == <<rvars, mvars, avars, svars>>

vars == <<fvars, pvars, ovars>>

DimChoices == {None, Some(-1), Some(0), Some(1), Some(2), Some(16)}

NumHashFnsChoices == (-1)..MaxHashFns

MaxLandmarks == 2

\* the sketches landmark sets are drawn from
LandmarkSketches == {<<>>, <<FpA>>, <<FpA, FpB>>, <<FpC, FpB, FpA>>}

RECURSIVE SeqsUpTo(_, _)
SeqsUpTo(S, n) ==
    IF n = 0 THEN {<<>>}
    ELSE SeqsUpTo(S, n - 1)
         \cup {Append(q, e) : q \in {r \in SeqsUpTo(S, n - 1) : Len(r) = n - 1}, e \in S}

LandmarkLists == SeqsUpTo(LandmarkSketches, MaxLandmarks)

VecInputs ==
    [fn : {"countsketch"}, query_mh : HashLists, dim : DimChoices,
     num_hash_fns : NumHashFnsChoices, landmark_mh : {<<>>}]
    \cup
    [fn : {"landmark"}, query_mh : HashLists, dim : {None},
     num_hash_fns : {DefaultNumHashFns}, landmark_mh : LandmarkLists]

InitFn ==
    /\ f_in \in VecInputs
    /\ f_pc = "call"
    /\ cs_dim = None
    /\ vector = None
    /\ pos = <<1, 0>>
    /\ vector_norm2 = None
    /\ divided = FALSE
    /\ f_log = <<>>
    /\ f_out = None

\* vectorize.py:81-90
LandmarkCall ==
    /\ f_pc = "call"
    /\ f_in.fn = "landmark"
    /\ f_out' = _vectorize_landmark(f_in.query_mh, f_in.landmark_mh)
    /\ f_pc' = "returned"
    /\ UNCHANGED <<f_in, cs_dim, vector, pos, vector_norm2, divided, f_log>>
    /\ UNCHANGED pvars
    /\ UNCHANGED ovars

\* vectorize.py:130-131; np.zeros raises ValueError on a negative length
CountsketchEnter ==
    /\ f_pc = "call"
    /\ f_in.fn = "countsketch"
    /\ LET d == DimOrDefault(f_in.dim)
       IN  IF d < 0
           THEN /\ f_pc' = "raised"
                /\ f_out' = "ValueError"
                /\ UNCHANGED <<cs_dim, vector>>
           ELSE /\ f_pc' = "loop"
                /\ cs_dim' = d
                /\ vector' = Zeros(d)
                /\ UNCHANGED f_out
    /\ UNCHANGED <<f_in, pos, vector_norm2, divided, f_log>>
    /\ UNCHANGED pvars
    /\ UNCHANGED ovars

\* vectorize.py:134-139, one pass of the inner loop
CountsketchAccumulate ==
    /\ f_pc = "loop"
    /\ pos[1] <= Len(f_in.query_mh)
    /\ pos[2] < f_in.num_hash_fns
    /\ vector' = Accumulate(vector, f_in.query_mh[pos[1]], pos[2], cs_dim)
    /\ f_log' = Append(f_log, Contribution(f_in.query_mh[pos[1]], pos[2], cs_dim))
    /\ pos' = <<pos[1], pos[2] + 1>>
    /\ UNCHANGED <<f_in, f_pc, cs_dim, vector_norm2, divided, f_out>>
    /\ UNCHANGED pvars
    /\ UNCHANGED ovars

\* vectorize.py:133,135: range(num_hash_fns) is used up, on to the next hash
CountsketchNextHash ==
    /\ f_pc = "loop"
    /\ pos[1] <= Len(f_in.query_mh)
    /\ pos[2] >= f_in.num_hash_fns
    /\ pos' = <<pos[1] + 1, 0>>
    /\ UNCHANGED <<f_in, f_pc, cs_dim, vector, vector_norm2, divided, f_log, f_out>>
    /\ UNCHANGED pvars
    /\ UNCHANGED ovars

\* vectorize.py:142-146
CountsketchNormalize ==
    /\ f_pc = "loop"
    /\ pos[1] > Len(f_in.query_mh)
    /\ vector_norm2' = Some(Norm2(vector))
    /\ divided' = NormPositive(Norm2(vector))
    /\ vector' = Normalize(vector)
    /\ f_out' = vector'
    /\ f_pc' = "returned"
    /\ UNCHANGED <<f_in, cs_dim, pos, f_log>>
    /\ UNCHANGED pvars
    /\ UNCHANGED ovars

NextFn ==
    \/ LandmarkCall
    \/ CountsketchEnter
    \/ CountsketchAccumulate
    \/ CountsketchNextHash
    \/ CountsketchNormalize

(***************************************************************************)
(* The world of the pipeline: queries, their genomes' sketches, the        *)
(* landmark sets a rebuild can leave on disk, and the calls made.          *)
(***************************************************************************)
\* sketch_genome of the genome a query resolves to
SketchOf(q) == IF q = "q1" THEN <<FpA, FpB>> ELSE <<FpC>>

QueryLists == {<<>>, <<"q1">>, <<"q1", "q2">>, <<"q2", "q1">>}

Groups == {0}

LandmarkVersions ==
    { << <<FpA>>, <<FpA, FpB>> >>, << <<FpC, FpB, FpA>>, <<FpA>> >> }

InstalledLandmarks == << <<FpA>>, <<FpA, FpB>> >>

Methods == {"countsketch", "landmark", "minhash"}

DefaultSeed == 42
OtherSeed == 7
ProjectionDim == 2
MaxCalls == 2

\* what cli.py:45-49 passes on: group and dim, both at their defaults
KwargChoices == { [group |-> 0, dim |-> None] }

ArgChoices ==
    {a \in [query : QueryLists, method : Methods,
            projection : {None, Some(ProjectionDim)},
            seed : {DefaultSeed, OtherSeed}, kwargs : KwargChoices] :
        /\ a.projection = None => a.seed = DefaultSeed
        /\ a.method \notin {"countsketch", "landmark"} => a.projection = None}

\* keywords that differ only in what the spec's cache key leaves out: another
\* group (which the countsketch vectorizer ignores and landmarks.yml lacks),
\* and dim given as its default
CacheKwargChoices ==
    { [group |-> 0, dim |-> None],
      [group |-> 1, dim |-> None],
      [group |-> 0, dim |-> Some(DefaultDim)] }

CacheArgChoices ==
    {a \in [query : {<<"q1">>, <<"q1", "q2">>}, method : {"countsketch", "landmark"},
            projection : {None, Some(ProjectionDim)},
            seed : {DefaultSeed}, kwargs : CacheKwargChoices] :
        a.projection # None => (a.kwargs \in KwargChoices /\ a.query = <<"q1">>)}

(***************************************************************************)
(* joblib.Memory around the two vectorizers.                               *)
(***************************************************************************)
GetKw(kwargs, name, default) ==
    IF name \in DOMAIN kwargs THEN kwargs[name] ELSE default

\* the function `mem.cache` wraps for a method
FnOf(method) ==
    IF method = "landmark" THEN "_vectorize_landmark" ELSE "_vectorize_countsketch"

\* the named parameters of a vectorizer, after its sketch
NamedParams(fn) ==
    IF fn = "_vectorize_landmark" THEN {"group"} ELSE {"dim", "num_hash_fns"}

ParamDefault(name) ==
    IF name = "group" THEN 0
    ELSE IF name = "num_hash_fns" THEN DefaultNumHashFns ELSE None

\* what joblib hashes for a call fn(mh, **kwargs): the function, the sketch,
\* the named parameters with defaults filled in, and the other keywords
CacheKey(fn, mh, kwargs) ==
    [fn    |-> fn,
     mh    |-> mh,
     named |-> [n \in NamedParams(fn) |-> GetKw(kwargs, n, ParamDefault(n))],
     extra |-> [n \in (DOMAIN kwargs) \ NamedParams(fn) |-> kwargs[n]]]

\* the store keeps one directory of entries per wrapped function
EmptyStore == [fn \in {"_vectorize_landmark", "_vectorize_countsketch"} |-> {}]

\* a faulty variant of MemHas: a store that never finds an entry
MemNeverHas(store, key) == FALSE

MemHas(store, key) == \E e \in store[key.fn] : e.key = key

MemGet(store, key) == (CHOOSE e \in store[key.fn] : e.key = key).value

\* the entry of a key is one file: writing it replaces what was there
MemPut(store, key, value) ==
    [store EXCEPT ![key.fn] =
        {e \in @ : e.key # key} \cup {[key |-> key, value |-> value]}]

\* running the wrapped function itself; the landmark vectorizer reads the
\* landmark set of its group from disk (vectorize.py:81-88)
Invoke(fn, mh, kwargs, onDisk) ==
    IF fn = "_vectorize_landmark"
    THEN LET group == GetKw(kwargs, "group", 0)
         IN  IF group \notin DOMAIN onDisk
             THEN [ok |-> FALSE, exc |-> "KeyError"]
             ELSE [ok |-> TRUE, value |-> _vectorize_landmark(mh, onDisk[group])]
    ELSE _vectorize_countsketch(mh, GetKw(kwargs, "dim", None),
                                GetKw(kwargs, "num_hash_fns", DefaultNumHashFns))

\* what a completed run of a vectorizer worked on: the sketch, the method's
\* parameters as the function saw them, and the landmark set it read
Ran(fn, mh, kwargs, onDisk) ==
    IF fn = "_vectorize_landmark"
    THEN [fn |-> fn, mh |-> mh, dim |-> 0, num_hash_fns |-> 0,
          landmark_mh |-> onDisk[GetKw(kwargs, "group", 0)]]
    ELSE [fn |-> fn, mh |-> mh,
          dim |-> DimOrDefault(GetKw(kwargs, "dim", None)),
          num_hash_fns |-> GetKw(kwargs, "num_hash_fns", DefaultNumHashFns),
          landmark_mh |-> <<>>]

(***************************************************************************)
(* np.stack, and the random projection.                                    *)
(***************************************************************************)
\* a Python list of floats as an array
FromList(list) ==
    [len |-> Len(list),
     nz  |-> [j \in {k - 1 : k \in {i \in 1..Len(list) : list[i][1] # 0}}
                |-> list[j + 1]]]

AsRows(fn, rows) ==
    IF fn = "_vectorize_landmark"
    THEN [i \in 1..Len(rows) |-> FromList(rows[i])]
    ELSE rows

RECURSIVE Reversed(_)
Reversed(rows) ==
    IF rows = <<>> THEN <<>> ELSE Append(Reversed(Tail(rows)), Head(rows))

\* a faulty variant of np_stack: the last row first
np_stack_reversed(rows) ==
    IF rows = <<>> \/ \E i \in 1..Len(rows) : rows[i].len # rows[1].len
    THEN [ok |-> FALSE, exc |-> "ValueError"]
    ELSE [ok |-> TRUE, value |-> Reversed(rows)]

\* np.stack(rows, axis=0): ValueError on no rows and on rows of unequal length
np_stack(rows) ==
    IF rows = <<>> \/ \E i \in 1..Len(rows) : rows[i].len # rows[1].len
    THEN [ok |-> FALSE, exc |-> "ValueError"]
    ELSE [ok |-> TRUE, value |-> rows]

\* a faulty variant of default_rng: the stream also depends on how many
\* calls the process made
default_rng_shared(seed) == [seed |-> seed + ncalls, drawn |-> 0]

\* default_rng(seed=seed): a fresh generator, nothing drawn yet
default_rng(seed) == [seed |-> seed, drawn |-> 0]

\* the n-th standard normal draw of the generator seeded with `seed`,
\* as a whole number standing for the float
StdNormal(seed, n) == (((seed + 1) * (n + 3) * 7 + n * n) % 9) - 4

\* generator.normal(scale=1/sqrt(scale2), size=(rows, cols)): the matrix is
\* kept as the draws it is made of, and the generator moves on
Normal(gen, scale2, rows, cols) ==
    [matrix |-> [rows |-> rows, cols |-> cols, seed |-> gen.seed,
                 first |-> gen.drawn, scale2 |-> scale2],
     gen    |-> [gen EXCEPT !.drawn = @ + rows * cols]]

\* entry (k, j) of a drawn matrix, 0-based, filled row by row
Entry(M, k, j) == Real(StdNormal(M.seed, M.first + k * M.cols + j), 1, M.scale2)

RAddZ(p, q) == IF p[1] = 0 THEN q ELSE IF q[1] = 0 THEN p ELSE RAdd(p, q)

RECURSIVE DotOver(_, _, _, _)
DotOver(v, M, j, S) ==
    IF S = {} THEN <<0, 1, 1>>
    ELSE LET k == CHOOSE i \in S : TRUE
         IN  RAddZ(RMul(v.nz[k], Entry(M, k, j)), DotOver(v, M, j, S \ {k}))

\* v @ M for one row v
RowTimes(v, M) ==
    LET dot == [j \in 0..(M.cols - 1) |-> DotOver(v, M, j, DOMAIN v.nz)]
    IN  [len |-> M.cols,
         nz  |-> [j \in {c \in 0..(M.cols - 1) : dot[c][1] # 0} |-> dot[j]]]

\* batch @ M
MatMul(batch, M) == [i \in 1..Len(batch) |-> RowTimes(batch[i], M)]

\* a faulty variant of ProjectBatch: a new matrix for each row of the batch
ProjectEachRow(batch, projection, seed) ==
    LET D == batch[1].len
        M(i) == [rows |-> D, cols |-> projection, seed |-> seed,
                 first |-> (i - 1) * D * projection, scale2 |-> projection]
    IN  [generator |-> [seed |-> seed, drawn |-> Len(batch) * D * projection],
         projector |-> M(Len(batch)),
         out       |-> [i \in 1..Len(batch) |-> RowTimes(batch[i], M(i))]]

\* vectorize.py:191-199 on a stacked batch
ProjectBatch(batch, projection, seed) ==
    LET drawn == Normal(default_rng(seed), projection, batch[1].len, projection)
    IN  [generator |-> drawn.gen,
         projector |-> drawn.matrix,
         out       |-> MatMul(batch, drawn.matrix)]

(***************************************************************************)
(* The pipeline's steps.                                                   *)
(***************************************************************************)
\* no call of vectorize is in progress and none was made
InitCallIdle ==
    /\ fetched = {}
    /\ ncalls = 0
    /\ history = <<>>
    /\ args = None
    /\ pc = "idle"
    /\ genome_info = <<>>
    /\ query_mh = <<>>
    /\ vectors = <<>>
    /\ generator = None
    /\ projector = None
    /\ out = None
    /\ attempts = 0
    /\ computed = <<>>

InitPipe ==
    /\ mem = EmptyStore
    /\ landmarks = [g \in Groups |-> InstalledLandmarks]
    /\ InitCallIdle

\* no vectorizer call is being followed step by step
InitFnIdle ==
    /\ f_in = None
    /\ f_pc = "idle"
    /\ cs_dim = None
    /\ vector = None
    /\ pos = <<1, 0>>
    /\ vector_norm2 = None
    /\ divided = FALSE
    /\ f_log = <<>>
    /\ f_out = None

InitRaceIdle ==
    /\ r_req = None
    /\ r_pc = <<>>
    /\ r_val = <<>>

InitHashIdle ==
    /\ m_in = None
    /\ m_pc = "idle"
    /\ m_hk = None
    /\ m_idx = None

DefaultMaxTries == 3

\* a dict is the set of its <<key, value>> items
EmptyDict == {}

\* api_get(url=...) with every other argument left at its default
PlainConfig ==
    [url |-> <<"host/">>, max_tries |-> DefaultMaxTries, query_key |-> None,
     default_params |-> EmptyDict, cache_dir |-> None]

NoOutcome == [kind |-> "none", v |-> ""]

\* no invocation under way, both caches empty
HttpCallIdle ==
    /\ a_memo = {}
    /\ a_disk = {}
    /\ a_pc = "idle"
    /\ a_try = 0
    /\ a_query = None
    /\ a_params = EmptyDict
    /\ a_sent = <<>>
    /\ a_out = NoOutcome

InitHttpIdle ==
    /\ a_cfg = PlainConfig
    /\ HttpCallIdle

\* no sketch_genome call under way
SketchCallIdle ==
    /\ s_memo = {}
    /\ s_pc = "idle"
    /\ s_key = None
    /\ s_start = None
    /\ s_depth = 0
    /\ s_force = FALSE
    /\ s_dir = None
    /\ s_log = <<>>
    /\ s_out = None

InitSketchIdle ==
    /\ s_fs = <<>>
    /\ SketchCallIdle

Between == pc \in {"idle", "returned", "raised"}

\* vectorize.py:149-162: a call begins
Call(a) ==
    /\ Between
    /\ ncalls < MaxCalls
    /\ ncalls' = ncalls + 1
    /\ args' = a
    /\ genome_info' = <<>>
    /\ query_mh' = <<>>
    /\ vectors' = <<>>
    /\ generator' = None
    /\ projector' = None
    /\ out' = None
    /\ pc' = IF a.query = <<>> THEN "dispatch" ELSE "genome_info"
    /\ UNCHANGED <<mem, fetched, landmarks, history>>
    /\ attempts' = 0
    /\ UNCHANGED computed
    /\ UNCHANGED fvars
    /\ UNCHANGED ovars

\* vectorize.py:164-169, one query resolved and its genome on disk
ResolveOk ==
    /\ pc = "genome_info"
    /\ LET q == args.query[Len(genome_info) + 1]
       IN  /\ genome_info' = Append(genome_info, [query |-> q, fasta |-> q])
           /\ fetched' = fetched \cup {q}
    /\ pc' = IF Len(genome_info) + 1 = Len(args.query) THEN "query_mh" ELSE pc
    /\ UNCHANGED <<mem, landmarks, ncalls, history, args, query_mh, vectors,
                   generator, projector, out>>
    /\ attempts' = attempts + 1
    /\ UNCHANGED computed
    /\ UNCHANGED fvars
    /\ UNCHANGED ovars

\* a faulty variant of ResolveFail: the failed resolution is tried again
ResolveFailRetry ==
    /\ pc = "genome_info"
    /\ args.query[Len(genome_info) + 1] \notin fetched
    /\ attempts' = attempts + 1
    /\ UNCHANGED <<mem, fetched, landmarks, ncalls, history, args, pc, genome_info,
                   query_mh, vectors, generator, projector, out, computed>>
    /\ UNCHANGED fvars
    /\ UNCHANGED ovars

\* vectorize.py:164-169, the upstream service fails for a query not yet cached
ResolveFail ==
    /\ pc = "genome_info"
    /\ args.query[Len(genome_info) + 1] \notin fetched
    /\ pc' = "raised"
    /\ out' = [exc |-> "ConnectionError", line |-> 165]
    /\ UNCHANGED <<mem, fetched, landmarks, ncalls, history, args, genome_info,
                   query_mh, vectors, generator, projector>>
    /\ attempts' = attempts + 1
    /\ UNCHANGED computed
    /\ UNCHANGED fvars
    /\ UNCHANGED ovars

\* vectorize.py:171-175, one genome sketched
SketchStep ==
    /\ pc = "query_mh"
    /\ query_mh' = Append(query_mh, SketchOf(genome_info[Len(query_mh) + 1].fasta))
    /\ pc' = IF Len(query_mh) + 1 = Len(genome_info) THEN "dispatch" ELSE pc
    /\ UNCHANGED <<mem, fetched, landmarks, ncalls, history, args, genome_info,
                   vectors, generator, projector, out>>
    /\ UNCHANGED hvars
    /\ UNCHANGED fvars
    /\ UNCHANGED ovars

\* vectorize.py:177-182
Dispatch ==
    /\ pc = "dispatch"
    /\ IF args.method \in {"landmark", "countsketch"}
       THEN /\ pc' = IF query_mh = <<>> THEN "stack" ELSE "vectors"
            /\ UNCHANGED out
       ELSE /\ pc' = "raised"
            /\ out' = [exc |-> "ValueError", line |-> 182]
    /\ UNCHANGED <<mem, fetched, landmarks, ncalls, history, args, genome_info,
                   query_mh, vectors, generator, projector>>
    /\ UNCHANGED hvars
    /\ UNCHANGED fvars
    /\ UNCHANGED ovars

\* vectorize.py:185, fn(mh, **kwargs) answered from the store
VectorizeHit ==
    /\ pc = "vectors"
    /\ LET fn  == FnOf(args.method)
           key == CacheKey(fn, query_mh[Len(vectors) + 1], args.kwargs)
       IN  /\ MemHas(mem, key)
           /\ vectors' = Append(vectors, MemGet(mem, key))
    /\ pc' = IF Len(vectors) + 1 = Len(query_mh) THEN "stack" ELSE pc
    /\ UNCHANGED <<mem, fetched, landmarks, ncalls, history, args, genome_info,
                   query_mh, generator, projector, out>>
    /\ UNCHANGED hvars
    /\ UNCHANGED fvars
    /\ UNCHANGED ovars

\* vectorize.py:185, fn(mh, **kwargs) computed and stored
VectorizeMiss ==
    /\ pc = "vectors"
    /\ LET fn  == FnOf(args.method)
           mh  == query_mh[Len(vectors) + 1]
           key == CacheKey(fn, mh, args.kwargs)
           r   == Invoke(fn, mh, args.kwargs, landmarks)
       IN  /\ ~MemHas(mem, key)
           /\ IF r.ok
              THEN /\ mem' = MemPut(mem, key, r.value)
                   /\ vectors' = Append(vectors, r.value)
                   /\ computed' = Append(computed, Ran(fn, mh, args.kwargs, landmarks))
                   /\ pc' = IF Len(vectors) + 1 = Len(query_mh) THEN "stack" ELSE pc
                   /\ UNCHANGED out
              ELSE /\ pc' = "raised"
                   /\ out' = [exc |-> r.exc, line |-> 185]
                   /\ UNCHANGED <<mem, vectors, computed>>
    /\ UNCHANGED <<fetched, landmarks, ncalls, history, args, genome_info,
                   query_mh, generator, projector>>
    /\ UNCHANGED attempts
    /\ UNCHANGED fvars
    /\ UNCHANGED ovars

\* vectorize.py:184-189: np.stack, and the return when no projection is asked
Stack ==
    /\ pc = "stack"
    /\ LET r == np_stack(AsRows(FnOf(args.method), vectors))
       IN  IF ~r.ok
           THEN /\ pc' = "raised"
                /\ out' = [exc |-> r.exc, line |-> 184]
                /\ UNCHANGED <<vectors, history>>
           ELSE /\ vectors' = r.value
                /\ IF args.projection = None
                   THEN /\ pc' = "returned"
                        /\ out' = r.value
                        /\ history' = Append(history, [args |-> args,
                                                       batch |-> r.value,
                                                       out |-> r.value])
                   ELSE /\ pc' = "project"
                        /\ UNCHANGED <<out, history>>
    /\ UNCHANGED <<mem, fetched, landmarks, ncalls, args, genome_info, query_mh,
                   generator, projector>>
    /\ UNCHANGED hvars
    /\ UNCHANGED fvars
    /\ UNCHANGED ovars

\* vectorize.py:191-199
Project ==
    /\ pc = "project"
    /\ LET r == ProjectBatch(vectors, args.projection[1], args.seed)
       IN  /\ generator' = r.generator
           /\ projector' = r.projector
           /\ out' = r.out
           /\ history' = Append(history, [args |-> args, batch |-> vectors,
                                          out |-> r.out])
    /\ pc' = "returned"
    /\ UNCHANGED <<mem, fetched, landmarks, ncalls, args, genome_info, query_mh,
                   vectors>>
    /\ UNCHANGED hvars
    /\ UNCHANGED fvars
    /\ UNCHANGED ovars

\* `vectome build --force` between two calls (cli.py, sketching.py:62-86):
\* the landmark set of a group is fetched and sketched anew
BuildLandmarks(group, version) ==
    /\ Between
    /\ ncalls < MaxCalls
    /\ landmarks[group] # version
    /\ landmarks' = [landmarks EXCEPT ![group] = version]
    /\ UNCHANGED <<mem, fetched, ncalls, history, args, pc, genome_info,
                   query_mh, vectors, generator, projector, out>>
    /\ UNCHANGED hvars
    /\ UNCHANGED fvars
    /\ UNCHANGED ovars

Next ==
    \/ \E a \in ArgChoices : Call(a)
    \/ ResolveOk
    \/ ResolveFail
    \/ SketchStep
    \/ Dispatch
    \/ VectorizeHit
    \/ VectorizeMiss
    \/ Stack
    \/ Project
    \/ \E group \in Groups, version \in LandmarkVersions : BuildLandmarks(group, version)

\* the pipeline from a fresh cache, no vectorizer call followed on its own
Init == InitPipe /\ InitFnIdle /\ InitRaceIdle /\ InitHashIdle /\ InitHttpIdle /\ InitSketchIdle

Spec == Init /\ [][Next]_vars

\* the pipeline called with keywords that vary
NextCache ==
    \/ \E a \in CacheArgChoices : Call(a)
    \/ ResolveOk
    \/ ResolveFail
    \/ SketchStep
    \/ Dispatch
    \/ VectorizeHit
    \/ VectorizeMiss
    \/ Stack
    \/ Project
    \/ \E group \in Groups, version \in LandmarkVersions : BuildLandmarks(group, version)

SpecCache == Init /\ [][NextCache]_vars

(***************************************************************************)
(* Two processes make the same memoized call fn(mh, **kwargs) on one store *)
(* (vectorize.py:185 in each): joblib looks the key up, loads the entry if *)
(* it is there, and otherwise runs the function, writes the entry (a       *)
(* temporary file renamed into place) and returns what it computed.        *)
(***************************************************************************)
NumProcs == 2

Procs == 1..NumProcs

RaceRequests ==
    {[fn |-> FnOf(method), mh |-> SketchOf(q), kwargs |-> kwargs] :
        method \in {"countsketch", "landmark"}, q \in {"q1", "q2"},
        kwargs \in KwargChoices}

RaceKey == CacheKey(r_req.fn, r_req.mh, r_req.kwargs)

\* the store before the race: empty, or holding the key's entry as a run
\* against some landmark set left it
RaceStores(req) ==
    {EmptyStore} \cup
    {MemPut(EmptyStore, CacheKey(req.fn, req.mh, req.kwargs),
            Invoke(req.fn, req.mh, req.kwargs, [g \in Groups |-> version]).value) :
        version \in LandmarkVersions}

InitRace ==
    /\ r_req \in RaceRequests
    /\ r_pc = [p \in Procs |-> "lookup"]
    /\ r_val = [p \in Procs |-> [from |-> "nowhere"]]
    /\ mem \in RaceStores(r_req)
    /\ landmarks \in [Groups -> LandmarkVersions]
    /\ InitCallIdle
    /\ InitFnIdle
    /\ InitHashIdle
    /\ InitHttpIdle
    /\ InitSketchIdle

\* the lookup of the key
RaceLookup(p) ==
    /\ r_pc[p] = "lookup"
    /\ r_pc' = [r_pc EXCEPT ![p] = IF MemHas(mem, RaceKey) THEN "load" ELSE "compute"]
    /\ UNCHANGED <<r_req, r_val>>
    /\ UNCHANGED <<fvars, pvars, mvars, avars, svars>>

\* a hit: the entry is loaded and returned
RaceLoad(p) ==
    /\ r_pc[p] = "load"
    /\ r_val' = [r_val EXCEPT ![p] = [from |-> "store", value |-> MemGet(mem, RaceKey)]]
    /\ r_pc' = [r_pc EXCEPT ![p] = "returned"]
    /\ UNCHANGED r_req
    /\ UNCHANGED <<fvars, pvars, mvars, avars, svars>>

\* a faulty variant of RaceCompute: the second process reads another landmark
\* set than the first
RaceComputeDrifting(p) ==
    /\ r_pc[p] = "compute"
    /\ LET seen == IF p = 1 THEN landmarks
                   ELSE [g \in Groups |->
                           CHOOSE version \in LandmarkVersions : version # landmarks[g]]
       IN  r_val' = [r_val EXCEPT ![p] =
                [from |-> "run",
                 value |-> Invoke(r_req.fn, r_req.mh, r_req.kwargs, seen).value]]
    /\ r_pc' = [r_pc EXCEPT ![p] = "write"]
    /\ UNCHANGED r_req
    /\ UNCHANGED <<fvars, pvars, mvars, avars, svars>>

\* a miss: the wrapped function runs
RaceCompute(p) ==
    /\ r_pc[p] = "compute"
    /\ r_val' = [r_val EXCEPT ![p] =
            [from |-> "run",
             value |-> Invoke(r_req.fn, r_req.mh, r_req.kwargs, landmarks).value]]
    /\ r_pc' = [r_pc EXCEPT ![p] = "write"]
    /\ UNCHANGED r_req
    /\ UNCHANGED <<fvars, pvars, mvars, avars, svars>>

\* the computed vector is written as the key's entry, then returned
RaceWrite(p) ==
    /\ r_pc[p] = "write"
    /\ mem' = MemPut(mem, RaceKey, r_val[p].value)
    /\ r_pc' = [r_pc EXCEPT ![p] = "returned"]
    /\ UNCHANGED <<r_req, r_val>>
    /\ UNCHANGED <<fetched, landmarks, ncalls, history, args, pc, genome_info,
                   query_mh, vectors, generator, projector, out, hvars>>
    /\ UNCHANGED <<fvars, mvars, avars, svars>>

NextRace ==
    \/ \E p \in Procs : RaceLookup(p)
    \/ \E p \in Procs : RaceLoad(p)
    \/ \E p \in Procs : RaceCompute(p)
    \/ \E p \in Procs : RaceWrite(p)

SpecRace == InitRace /\ [][NextRace]_vars

(***************************************************************************)
(* One evaluation of the hash helpers: hk = _mix_u64(x), then              *)
(* _bucket_index(hk, dim, salt), as in vectorize.py:136-137.               *)
(***************************************************************************)
\* 64-bit values and one wider value, which the mixer masks first
MixInputs ==
    { <<\h00, \h00, \h00, \h00, \h00, \h00, \h00, \h00>>,
      <<\h01, \h00, \h00, \h00, \h00, \h00, \h00, \h00>>,
      FpA, FpB, FpC,
      <<\hff, \hff, \hff, \hff, \hff, \hff, \hff, \hff>>,
      <<\h01, \h00, \h00, \h00, \h00, \h00, \h00, \h00, \h01>> }

HashDims == {1, 2, 10, 16, 1024, 4096}

InitHash ==
    /\ m_in \in [x : MixInputs, dim : HashDims, salt : Salts]
    /\ m_pc = "call"
    /\ m_hk = None
    /\ m_idx = None
    /\ InitPipe
    /\ InitFnIdle
    /\ InitRaceIdle
    /\ InitHttpIdle
    /\ InitSketchIdle

\* vectorize.py:18-41
MixCall ==
    /\ m_pc = "call"
    /\ m_hk' = _mix_u64(m_in.x)
    /\ m_pc' = "mixed"
    /\ UNCHANGED <<m_in, m_idx>>
    /\ UNCHANGED <<fvars, pvars, rvars, avars, svars>>

\* vectorize.py:44-63
IndexCall ==
    /\ m_pc = "mixed"
    /\ m_idx' = Some(_bucket_index(m_hk, m_in.dim, m_in.salt))
    /\ m_pc' = "indexed"
    /\ UNCHANGED <<m_in, m_hk>>
    /\ UNCHANGED <<fvars, pvars, rvars, avars, svars>>

NextHash ==
    \/ MixCall
    \/ IndexCall

SpecHash == InitHash /\ [][NextHash]_vars

(***************************************************************************)
(* A function wrapped by api_get (specification SpecHttp): one decorated   *)
(* function, invoked again and again.                                      *)
(***************************************************************************)
MaxTries == 3

TriesChoices == 0..MaxTries

Queries == {None, Some("GCF_1")}

Urls == {<<"host/">>, <<"host/", "{query}", "/download">>}

DictChoices == {EmptyDict, {<<"term", "default">>, <<"hydrated", "FULLY">>}}

ParamChoices == {None, Some({<<"hydrated", "NO">>})}

Configs ==
    [url : Urls, max_tries : TriesChoices, query_key : {None, Some("term")},
     default_params : DictChoices, cache_dir : {None, Some("cache")}]

\* dict | dict: the right operand wins on a shared key
Merge(a, b) == {p \in a : \A q \in b : q[1] # p[1]} \cup b

\* str.format(query=query) on a url held as its pieces
Format(url, query) ==
    [n \in DOMAIN url |-> IF url[n] = "{query}" THEN query ELSE url[n]]

\* `params or {}`
OrEmpty(params) == IF params = None THEN EmptyDict ELSE params[1]

\* the local `params` after lines 33-36
MergedParams(cfg, query, params) ==
    LET merged == Merge(cfg.default_params, OrEmpty(params))
    IN  IF cfg.query_key # None /\ query # None
        THEN Merge(merged, {<<cfg.query_key[1], query[1]>>})
        ELSE merged

\* the local `url` after lines 34-38
UrlFor(cfg, query) ==
    IF cfg.query_key # None /\ query # None THEN cfg.url
    ELSE IF query # None THEN Format(cfg.url, query[1])
    ELSE cfg.url

\* the arguments joblib files a result under
DiskKey(query, params, try) == [query |-> query, params |-> params, try |-> try]

\* the keys of the frames open at depth `try`: the outer call passed no params,
\* every retry passed the merged ones
RECURSIVE FrameKeys(_, _, _)
FrameKeys(query, merged, try) ==
    IF try = 0 THEN {DiskKey(query, None, 0)}
    ELSE {DiskKey(query, Some(merged), try)} \cup FrameKeys(query, merged, try - 1)

\* f(query, r): the response is not modelled, the handler's result is
\* a function of the query
HandlerResult(query) == [kind |-> "value", v |-> <<"f", query>>]

Raised(name) == [kind |-> "exc", v |-> name]

GetEvent(outcome) ==
    [ev |-> "get", url |-> UrlFor(a_cfg, a_query), params |-> a_params,
     outcome |-> outcome]

HandlerEvent ==
    [ev |-> "f", url |-> <<>>, params |-> EmptyDict, outcome |-> "called"]

HttpBetween == a_pc \in {"idle", "returned", "raised"}

InitHttp ==
    /\ a_cfg \in Configs
    /\ HttpCallIdle
    /\ InitPipe
    /\ InitFnIdle
    /\ InitRaceIdle
    /\ InitHashIdle
    /\ InitSketchIdle

\* the wrapped call with a dict as params: functools.cache cannot hash it
CallUnhashable(query, params) ==
    /\ HttpBetween
    /\ params # None
    /\ a_query' = query
    /\ a_params' = EmptyDict
    /\ a_try' = 0
    /\ a_sent' = <<>>
    /\ a_pc' = "raised"
    /\ a_out' = Raised("TypeError")
    /\ UNCHANGED <<a_cfg, a_memo, a_disk>>
    /\ UNCHANGED <<fvars, pvars, rvars, mvars, svars>>

\* the wrapped call answered by functools.cache
CallMemoHit(query) ==
    /\ HttpBetween
    /\ query \in a_memo
    /\ a_query' = query
    /\ a_params' = EmptyDict
    /\ a_try' = 0
    /\ a_sent' = <<>>
    /\ a_pc' = "returned"
    /\ a_out' = HandlerResult(query)
    /\ UNCHANGED <<a_cfg, a_memo, a_disk>>
    /\ UNCHANGED <<fvars, pvars, rvars, mvars, svars>>

\* the wrapped call answered by the joblib store
CallDiskHit(query) ==
    /\ HttpBetween
    /\ query \notin a_memo
    /\ a_cfg.cache_dir # None
    /\ DiskKey(query, None, 0) \in a_disk
    /\ a_query' = query
    /\ a_params' = EmptyDict
    /\ a_try' = 0
    /\ a_sent' = <<>>
    /\ a_pc' = "returned"
    /\ a_out' = HandlerResult(query)
    /\ a_memo' = a_memo \cup {query}
    /\ UNCHANGED <<a_cfg, a_disk>>
    /\ UNCHANGED <<fvars, pvars, rvars, mvars, svars>>

\* the wrapped call reaches api_call: lines 32-42, up to requests.get
CallEnter(query) ==
    /\ HttpBetween
    /\ query \notin a_memo
    /\ a_cfg.cache_dir = None \/ DiskKey(query, None, 0) \notin a_disk
    /\ a_query' = query
    /\ a_params' = MergedParams(a_cfg, query, None)
    /\ a_try' = 0
    /\ a_sent' = <<>>
    /\ a_pc' = "get"
    /\ a_out' = NoOutcome
    /\ UNCHANGED <<a_cfg, a_memo, a_disk>>
    /\ UNCHANGED <<fvars, pvars, rvars, mvars, svars>>

\* does the retry go on when next_try is reached
RetryAllowed(next_try, max_tries) == next_try < max_tries

\* requests.get raises ConnectionError: lines 44-55
GetConnectionError ==
    /\ a_pc = "get"
    /\ a_sent' = Append(a_sent, GetEvent("ConnectionError"))
    /\ LET next_try == a_try + 1
           key == DiskKey(a_query, Some(a_params), next_try)
       IN  IF RetryAllowed(next_try, a_cfg.max_tries)
           THEN IF a_cfg.cache_dir # None /\ key \in a_disk
                THEN /\ a_pc' = "returned"
                     /\ a_out' = HandlerResult(a_query)
                     /\ a_memo' = a_memo \cup {a_query}
                     /\ a_disk' = a_disk \cup FrameKeys(a_query, a_params, a_try)
                     /\ UNCHANGED <<a_try, a_params>>
                ELSE /\ a_try' = next_try
                     /\ a_params' = MergedParams(a_cfg, a_query, Some(a_params))
                     /\ a_pc' = "get"
                     /\ UNCHANGED <<a_out, a_memo, a_disk>>
           ELSE /\ a_pc' = "raised"
                /\ a_out' = Raised("ConnectionError")
                /\ UNCHANGED <<a_try, a_params, a_memo, a_disk>>
    /\ UNCHANGED <<a_cfg, a_query>>
    /\ UNCHANGED <<fvars, pvars, rvars, mvars, svars>>

\* requests.get raises something else: nothing catches it
GetOtherError ==
    /\ a_pc = "get"
    /\ a_sent' = Append(a_sent, GetEvent("ReadTimeout"))
    /\ a_pc' = "raised"
    /\ a_out' = Raised("ReadTimeout")
    /\ UNCHANGED <<a_cfg, a_memo, a_disk, a_try, a_query, a_params>>
    /\ UNCHANGED <<fvars, pvars, rvars, mvars, svars>>

\* a response with an error status: raise_for_status raises, line 58
GetHttpError ==
    /\ a_pc = "get"
    /\ a_sent' = Append(a_sent, GetEvent("HTTPError"))
    /\ a_pc' = "raised"
    /\ a_out' = Raised("HTTPError")
    /\ UNCHANGED <<a_cfg, a_memo, a_disk, a_try, a_query, a_params>>
    /\ UNCHANGED <<fvars, pvars, rvars, mvars, svars>>

\* a good response: f is called and every open frame files its result,
\* lines 57-60 and 62-67
GetOk ==
    /\ a_pc = "get"
    /\ a_sent' = a_sent \o <<GetEvent("ok"), HandlerEvent>>
    /\ a_pc' = "returned"
    /\ a_out' = HandlerResult(a_query)
    /\ a_memo' = a_memo \cup {a_query}
    /\ a_disk' = IF a_cfg.cache_dir # None
                 THEN a_disk \cup FrameKeys(a_query, a_params, a_try)
                 ELSE a_disk
    /\ UNCHANGED <<a_cfg, a_try, a_query, a_params>>
    /\ UNCHANGED <<fvars, pvars, rvars, mvars, svars>>

\* a new process: functools.cache starts empty, the joblib store is kept
NewProcess ==
    /\ HttpBetween
    /\ a_memo # {}
    /\ a_memo' = {}
    /\ a_pc' = "idle"
    /\ a_try' = 0
    /\ a_query' = None
    /\ a_params' = EmptyDict
    /\ a_sent' = <<>>
    /\ a_out' = NoOutcome
    /\ UNCHANGED <<a_cfg, a_disk>>
    /\ UNCHANGED <<fvars, pvars, rvars, mvars, svars>>

NextHttp ==
    \/ \E query \in Queries, params \in ParamChoices : CallUnhashable(query, params)
    \/ \E query \in Queries : CallMemoHit(query)
    \/ \E query \in Queries : CallDiskHit(query)
    \/ \E query \in Queries : CallEnter(query)
    \/ GetConnectionError
    \/ GetOtherError
    \/ GetHttpError
    \/ GetOk
    \/ NewProcess

SpecHttp == InitHttp /\ [][NextHttp]_vars

(***************************************************************************)
(* sketch_genome (specification SpecSketch): one genome file, sketched     *)
(* again and again in one process.  A path is its components and whether   *)
(* it ends in a separator.                                                 *)
(***************************************************************************)
DefaultK == 51

DefaultN == 5000

Path(parts, slash) == [parts |-> parts, slash |-> slash]

CACHE_DIR == Path(<<"/", "cache", "vectome">>, FALSE)

APPDATA_DIR == Path(<<"/", "appdata">>, FALSE)

GenomeFile == Path(<<"/", "genomes", "g.fna">>, FALSE)

\* os.path.join(a, name)
PathJoin(a, name) == Path(Append(a.parts, name), FALSE)

\* os.path.dirname(a), a below the root
PathDirname(a) ==
    IF a.slash THEN Path(a.parts, FALSE)
    ELSE Path(SubSeq(a.parts, 1, Len(a.parts) - 1), FALSE)

\* os.path.basename(a)
PathBasename(a) == IF a.slash THEN "" ELSE a.parts[Len(a.parts)]

\* `cache_dir or CACHE_DIR`: None and "" are falsy
OrCacheDir(cache_dir) ==
    IF cache_dir = None \/ cache_dir[1].parts = <<>> THEN CACHE_DIR ELSE cache_dir[1]

\* the local `cache_dir` after line 24
SketchDir(cache_dir) == PathJoin(OrCacheDir(cache_dir), "sketches")

\* sketch_file, line 25
SketchFile(dir, file, n, k) ==
    [dir |-> dir.parts, base |-> PathBasename(file), n |-> n, k |-> k]

SketchFiles ==
    {SketchFile(SketchDir(Some(d)), GenomeFile, DefaultN, DefaultK) :
        d \in {CACHE_DIR, APPDATA_DIR}}

\* the directories callers pass: the default one written with a trailing
\* separator, and the one sketch_landmarks passes
DirChoices == {Some(Path(CACHE_DIR.parts, TRUE)), Some(APPDATA_DIR)}

\* what functools.cache files a result under: the keywords given, in order
SketchKey(form, force, cache_dir) ==
    [form |-> form, force |-> force, cache_dir |-> cache_dir]

\* sketch_genome(file=f), and sketch_genome(file=f, force=.., cache_dir=..)
SketchCalls ==
    {SketchKey("file", FALSE, None)}
        \cup {SketchKey("file,force,cache_dir", force, d) :
                 force \in BOOLEAN, d \in DirChoices}

\* the call the fallback makes, lines 33-40
FallbackKey(dir) == SketchKey("file,k,n,force,cache_dir", TRUE, Some(PathDirname(dir)))

\* the sketch of the genome file
Sketched == "mh(g.fna)"

SketchEvent(ev, dir) ==
    [ev |-> ev, file |-> SketchFile(dir, GenomeFile, DefaultN, DefaultK)]

CurrentFile == SketchFile(s_dir[1], GenomeFile, DefaultN, DefaultK)

\* the keys of the frames that are open
OpenKeys ==
    IF s_depth = 0 THEN {s_key[1]}
    ELSE {s_key[1], FallbackKey(SketchDir(s_key[1].cache_dir))}

SketchBetween == s_pc \in {"idle", "returned", "raised"}

\* earlier processes left each signature file absent, whole or truncated
InitSketch ==
    /\ s_fs \in [SketchFiles -> {"absent", "good", "truncated"}]
    /\ SketchCallIdle
    /\ InitPipe
    /\ InitFnIdle
    /\ InitRaceIdle
    /\ InitHashIdle
    /\ InitHttpIdle

\* the call is answered by functools.cache
SketchMemoHit(key) ==
    /\ SketchBetween
    /\ key \in s_memo
    /\ s_key' = Some(key)
    /\ s_start' = Some(s_fs[SketchFile(SketchDir(key.cache_dir), GenomeFile, DefaultN, DefaultK)])
    /\ s_depth' = 0
    /\ s_force' = key.force
    /\ s_dir' = Some(SketchDir(key.cache_dir))
    /\ s_log' = <<>>
    /\ s_pc' = "returned"
    /\ s_out' = Some(Sketched)
    /\ UNCHANGED <<s_fs, s_memo>>
    /\ UNCHANGED <<fvars, pvars, rvars, mvars, avars>>

\* the call reaches the body: lines 24-25
SketchEnter(key) ==
    /\ SketchBetween
    /\ key \notin s_memo
    /\ s_key' = Some(key)
    /\ s_start' = Some(s_fs[SketchFile(SketchDir(key.cache_dir), GenomeFile, DefaultN, DefaultK)])
    /\ s_depth' = 0
    /\ s_force' = key.force
    /\ s_dir' = Some(SketchDir(key.cache_dir))
    /\ s_log' = <<>>
    /\ s_pc' = "test"
    /\ s_out' = None
    /\ UNCHANGED <<s_fs, s_memo>>
    /\ UNCHANGED <<fvars, pvars, rvars, mvars, avars>>

\* the file exists, force is false and the signature loads: lines 27-30, 59
LoadOk ==
    /\ s_pc = "test"
    /\ ~s_force
    /\ s_fs[CurrentFile] = "good"
    /\ s_log' = Append(s_log, SketchEvent("load", s_dir[1]))
    /\ s_pc' = "returned"
    /\ s_out' = Some(Sketched)
    /\ s_memo' = s_memo \cup OpenKeys
    /\ UNCHANGED <<s_fs, s_key, s_start, s_depth, s_force, s_dir>>
    /\ UNCHANGED <<fvars, pvars, rvars, mvars, avars>>

\* the file exists, force is false and loading raises ValueError: the
\* fallback calls sketch_genome again, through functools.cache, lines 31-40
LoadValueError ==
    /\ s_pc = "test"
    /\ ~s_force
    /\ s_fs[CurrentFile] = "truncated"
    /\ s_log' = Append(s_log, SketchEvent("ValueError", s_dir[1]))
    /\ LET key == FallbackKey(s_dir[1])
       IN  IF key \in s_memo
           THEN /\ s_pc' = "returned"
                /\ s_out' = Some(Sketched)
                /\ s_memo' = s_memo \cup OpenKeys
                /\ UNCHANGED <<s_depth, s_force, s_dir>>
           ELSE /\ s_depth' = s_depth + 1
                /\ s_force' = key.force
                /\ s_dir' = Some(SketchDir(key.cache_dir))
                /\ s_pc' = "test"
                /\ UNCHANGED <<s_out, s_memo>>
    /\ UNCHANGED <<s_fs, s_key, s_start>>
    /\ UNCHANGED <<fvars, pvars, rvars, mvars, avars>>

\* no file, or force: the sketch is computed, lines 44-51
Compute ==
    /\ s_pc = "test"
    /\ s_force \/ s_fs[CurrentFile] = "absent"
    /\ s_log' = Append(s_log, SketchEvent("compute", s_dir[1]))
    /\ s_pc' = "write"
    /\ UNCHANGED <<s_fs, s_memo, s_key, s_start, s_depth, s_force, s_dir, s_out>>
    /\ UNCHANGED <<fvars, pvars, rvars, mvars, avars>>

\* the signature file is written, lines 53-59
WriteOk ==
    /\ s_pc = "write"
    /\ s_fs' = [s_fs EXCEPT ![CurrentFile] = "good"]
    /\ s_log' = Append(s_log, SketchEvent("write", s_dir[1]))
    /\ s_pc' = "returned"
    /\ s_out' = Some(Sketched)
    /\ s_memo' = s_memo \cup OpenKeys
    /\ UNCHANGED <<s_key, s_start, s_depth, s_force, s_dir>>
    /\ UNCHANGED <<fvars, pvars, rvars, mvars, avars>>

\* open(sketch_file, "w") has truncated the file and the write raises
WriteFails ==
    /\ s_pc = "write"
    /\ s_fs' = [s_fs EXCEPT ![CurrentFile] = "truncated"]
    /\ s_log' = Append(s_log, SketchEvent("OSError", s_dir[1]))
    /\ s_pc' = "raised"
    /\ s_out' = Some("OSError")
    /\ UNCHANGED <<s_memo, s_key, s_start, s_depth, s_force, s_dir>>
    /\ UNCHANGED <<fvars, pvars, rvars, mvars, avars>>

NextSketch ==
    \/ \E key \in SketchCalls : SketchMemoHit(key)
    \/ \E key \in SketchCalls : SketchEnter(key)
    \/ LoadOk
    \/ LoadValueError
    \/ Compute
    \/ WriteOk
    \/ WriteFails

SpecSketch == InitSketch /\ [][NextSketch]_vars

\* one vectorizer call on its own, the pipeline idle
InitVec == InitFn /\ InitPipe /\ InitRaceIdle /\ InitHashIdle /\ InitHttpIdle /\ InitSketchIdle

SpecVec == InitVec /\ [][NextFn]_vars

(***************************************************************************)
(* Properties of the vectorizer functions (specification SpecVec).         *)
(***************************************************************************)
FnEnded(name) == f_in.fn = name /\ f_pc \in {"returned", "raised"}

FnReturned(name) == f_in.fn = name /\ f_pc = "returned"

\* dim is given and positive
DimValid == f_in.dim # None /\ f_in.dim[1] > 0

\* a fraction <<n, d>> in lowest terms
Frac(n, d) == LET g == Gcd(Abs(n), d) IN <<n \div g, d \div g>>

RECURSIVE SquaresOver(_, _)
SquaresOver(f, S) ==
    IF S = {} THEN <<0, 1>>
    ELSE LET k    == CHOOSE j \in S : TRUE
             e    == f[k]
             rest == SquaresOver(f, S \ {k})
         IN  Frac(e[1] * e[1] * rest[2] + rest[1] * e[2] * e[2] * e[3],
                  e[2] * e[2] * e[3] * rest[2])

\* the Euclidean norm of an array of reals is exactly 1
UnitNorm(v) == SquaresOver(v.nz, DOMAIN v.nz) = <<1, 1>>

RECURSIVE NetCount(_, _)
NetCount(log, j) ==
    IF log = <<>> THEN 0
    ELSE (IF Head(log).idx = j THEN Head(log).sign ELSE 0) + NetCount(Tail(log), j)

\* some bucket's signed increments do not cancel
SomeBucketNonzero(log) == \E n \in 1..Len(log) : NetCount(log, log[n].idx) # 0

\* C1 as the specification states it: for a nonempty fingerprint set and
\* dim > 0, num_hash_fns > 0, the countsketch vector returned has length dim
\* and Euclidean norm exactly 1.
C1_UnitNormForEveryNonemptySet ==
    (FnReturned("countsketch") /\ f_in.query_mh # <<>> /\ DimValid
        /\ f_in.num_hash_fns > 0)
    => (f_out.len = f_in.dim[1] /\ UnitNorm(f_out))

\* C1, amended: for a nonempty fingerprint set and dim > 0, num_hash_fns > 0,
\* the countsketch vector returned has length dim; its norm is exactly 1 when
\* some bucket's signed increments do not cancel, and it is the all-zero
\* vector, left undivided, when every bucket's increments cancel.
C1_UnitNormUnlessCancelled ==
    (FnReturned("countsketch") /\ f_in.query_mh # <<>> /\ DimValid
        /\ f_in.num_hash_fns > 0)
    => /\ f_out.len = f_in.dim[1]
       /\ IF SomeBucketNonzero(f_log)
          THEN divided /\ UnitNorm(f_out)
          ELSE ~divided /\ f_out = Zeros(f_in.dim[1])

C1_Witness_NormalizedSketch ==
    /\ FnReturned("countsketch")
    /\ f_in.query_mh = <<FpA, FpB>>
    /\ f_in.dim = Some(16)
    /\ f_in.num_hash_fns = 3
    /\ divided
    /\ UnitNorm(f_out)

\* C2: for the empty fingerprint set and a dim > 0, the countsketch call does
\* not fail, returns the all-zero vector of length dim, finds the norm 0 and
\* does not divide by it.
C2_EmptySetGivesUndividedZeros ==
    (f_in.fn = "countsketch" /\ f_in.query_mh = <<>> /\ DimValid)
    => /\ f_pc # "raised"
       /\ f_pc = "returned"
            => /\ f_out = Zeros(f_in.dim[1])
               /\ vector_norm2 = Some(0)
               /\ ~divided

C2_Witness_EmptySketchReturned ==
    /\ FnReturned("countsketch")
    /\ f_in.query_mh = <<>>
    /\ f_in.dim = Some(16)
    /\ f_in.num_hash_fns = 3
    /\ f_out = Zeros(16)

\* C3 as the specification states it: a countsketch call with dim <= 0 or
\* num_hash_fns <= 0 ends in an error, returns no vector, and has made no
\* bucket increment.
C3_InvalidParametersRaise ==
    (FnEnded("countsketch")
        /\ ((f_in.dim # None /\ f_in.dim[1] <= 0) \/ f_in.num_hash_fns <= 0))
    => (f_pc = "raised" /\ f_log = <<>>)

\* C5: a landmark call returns one coordinate per landmark, coordinate k being
\* the similarity of the query to the k-th landmark, as it is (not normalized),
\* and within [0, 1].
C5_LandmarkCoordinatesAreSimilarities ==
    FnReturned("landmark")
    => /\ Len(f_out) = Len(f_in.landmark_mh)
       /\ \A n \in 1..Len(f_in.landmark_mh) :
            /\ f_out[n] = Similarity(f_in.query_mh, f_in.landmark_mh[n])
            /\ f_out[n][3] = 1
            /\ 0 <= f_out[n][1]
            /\ f_out[n][1] <= f_out[n][2]

C5_Witness_TwoLandmarks ==
    /\ FnReturned("landmark")
    /\ f_in.query_mh = <<FpA>>
    /\ f_in.landmark_mh = << <<FpA, FpB>>, <<FpA>> >>
    /\ f_out = << <<1, 2, 1>>, <<1, 1, 1>> >>

\* C6 as the specification states it: a landmark call on an empty landmark set
\* ends in an error and returns no vector.
C6_EmptyLandmarkSetRaises ==
    (FnEnded("landmark") /\ f_in.landmark_mh = <<>>) => f_pc = "raised"

(***************************************************************************)
(* Properties of the pipeline (specification Spec).                        *)
(***************************************************************************)
Supported == {"countsketch", "landmark"}

Returned == pc = "returned"

Projected(call) == call.args.projection # None

\* C4 as the specification states it: when a call fails because its method is
\* not a supported one, no query of that call has been resolved to a genome
\* or sketched before the failure.
C4_UnsupportedMethodBeforeResolution ==
    (pc = "raised" /\ out = [exc |-> "ValueError", line |-> 182])
    => /\ args.method \notin Supported
       /\ genome_info = <<>>
       /\ query_mh = <<>>

\* the row the store holds for query q under the call's method and keywords
StoredRow(q) ==
    LET fn  == FnOf(args.method)
        key == CacheKey(fn, SketchOf(q), args.kwargs)
    IN  AsRows(fn, <<MemGet(mem, key)>>)[1]

\* the row a run of the selected vectorizer gives for query q, the landmark
\* vectorizer against landmark set `version`
ComputedRow(q, version) ==
    LET fn == FnOf(args.method)
        r  == Invoke(fn, SketchOf(q), args.kwargs, [g \in Groups |-> version])
    IN  AsRows(fn, <<r.value>>)[1]

\* C7: a batch returned without projection has one row per query, in query
\* order: row i is the vector the store holds for the sketch of query i, which
\* is what the selected vectorizer computes for that sketch (the landmark
\* vectorizer: against a landmark set that was on disk).
C7_BatchRowsFollowQueryOrder ==
    (Returned /\ args.projection = None)
    => /\ Len(out) = Len(args.query)
       /\ \A n \in 1..Len(args.query) :
            /\ MemHas(mem, CacheKey(FnOf(args.method), SketchOf(args.query[n]),
                                    args.kwargs))
            /\ out[n] = StoredRow(args.query[n])
            /\ \E version \in LandmarkVersions :
                    out[n] = ComputedRow(args.query[n], version)

C7_Witness_SecondRowFromStore ==
    /\ Returned
    /\ args.projection = None
    /\ Len(history) = 2
    /\ history[1].args.query = <<"q1">>
    /\ history[1].args.method = args.method
    /\ args.query = <<"q2", "q1">>
    /\ out[1] # out[2]
    /\ out[2] = history[1].out[1]

\* C8: a generator and a projection matrix exist only in a call that asked for
\* a projection and only once all its per-query vectors are stacked; such a
\* call returns the whole batch times one D x projection matrix, the only
\* draws made from the generator, as n rows of length projection; a call
\* without projection returns the stacked batch itself and draws nothing.
C8_OneProjectionAfterAllVectors ==
    /\ (generator # None \/ projector # None)
        => /\ Returned
           /\ args.projection # None
           /\ Len(vectors) = Len(args.query)
    /\ (Returned /\ args.projection # None)
        => /\ projector = [rows |-> vectors[1].len, cols |-> args.projection[1],
                           seed |-> args.seed, first |-> 0,
                           scale2 |-> args.projection[1]]
           /\ generator = [seed |-> args.seed,
                           drawn |-> vectors[1].len * args.projection[1]]
           /\ out = MatMul(vectors, projector)
           /\ Len(out) = Len(args.query)
           /\ \A n \in 1..Len(out) : out[n].len = args.projection[1]
    /\ (Returned /\ args.projection = None)
        => /\ out = vectors
           /\ generator = None
           /\ projector = None

C8_Witness_ProjectedBatchOfTwo ==
    /\ Returned
    /\ args.projection = Some(ProjectionDim)
    /\ args.method = "countsketch"
    /\ Len(out) = 2
    /\ out[1] # out[2]
    /\ projector.rows = DefaultDim

\* C9: two calls that project the same stacked batch to the same dimension
\* with the same seed return the same projected batch, whatever calls came
\* before them.
C9_SameSeedSameProjection ==
    \A i, j \in 1..Len(history) :
        (/\ Projected(history[i])
         /\ Projected(history[j])
         /\ history[i].args.projection = history[j].args.projection
         /\ history[i].args.seed = history[j].args.seed
         /\ history[i].batch = history[j].batch)
        => history[i].out = history[j].out

C9_Witness_SameSeedTwice ==
    /\ Len(history) = 2
    /\ Projected(history[1])
    /\ Projected(history[2])
    /\ history[1].args.seed = history[2].args.seed
    /\ history[1].batch = history[2].batch
    /\ history[1].out # history[1].batch

\* C10: two calls with identical arguments that both return, return identical
\* batches (nothing removes entries from the store between calls).
C10_IdenticalCallsIdenticalBatches ==
    \A i, j \in 1..Len(history) :
        history[i].args = history[j].args => history[i].out = history[j].out

C10_Witness_RepeatedLandmarkCall ==
    /\ Len(history) = 2
    /\ history[1].args = history[2].args
    /\ history[1].args.method = "landmark"
    /\ Len(history[1].out) = 2
    /\ \E n \in 1..2 : history[2].out[n] # ComputedRow(args.query[n], landmarks[0])

(***************************************************************************)
(* Properties of the vector store (specifications SpecCache and Spec).     *)
(***************************************************************************)
\* C11 as the specification states it: no two completed runs of a vectorizer
\* worked on the same key, the key being (sketch, method, dim, num_hash_fns)
\* for countsketch and (sketch, landmark set) for landmark, whatever other
\* keywords the two requests carried.
C11_AtMostOneRunPerKey ==
    \A i, j \in 1..Len(computed) : i # j => computed[i] # computed[j]

\* C12 as the specification states it: every vector the call in progress got
\* from the memoized vectorizer, computed or taken from the store, equals what
\* a run of the vectorizer returns now for the same sketch and keywords.
C12_StoredVectorIsFresh ==
    pc \in {"vectors", "stack"}
    => \A n \in 1..Len(vectors) :
           vectors[n] = Invoke(FnOf(args.method), query_mh[n], args.kwargs,
                               landmarks).value

\* C13: a call attempts each query's resolution at most once, in order; when
\* an attempt fails the call ends there with that failure: it returns no
\* batch, and it has sketched nothing, got no vector from a vectorizer and
\* drawn no projection.
C13_FailedResolutionAbortsCall ==
    pc # "idle"
    => /\ attempts <= Len(args.query)
       /\ Len(genome_info) <= attempts
       /\ attempts <= Len(genome_info) + 1
       /\ attempts > Len(genome_info)
            => /\ pc = "raised"
               /\ out = [exc |-> "ConnectionError", line |-> 165]
               /\ Len(history) < ncalls
               /\ query_mh = <<>>
               /\ vectors = <<>>
               /\ generator = None
               /\ projector = None

C13_Witness_SecondQueryFails ==
    /\ pc = "raised"
    /\ out = [exc |-> "ConnectionError", line |-> 165]
    /\ args.query = <<"q1", "q2">>
    /\ Len(genome_info) = 1
    /\ attempts = 2

IsU64(v) == Len(v) = 8 /\ \A n \in 1..8 : v[n] \in 0..255

\* the values the source's doctests give (vectorize.py:27-32, 53-55)
MixOf0 == <<\h00, \h00, \h00, \h00, \h00, \h00, \h00, \h00>>
MixOf1 == <<\h2c, \hcb, \hc2, \h34, \hfc, \hbc, \h56, \hb4>>
MixOfFpA == <<\h6e, \he6, \h6b, \hbe, \h50, \h2e, \h1c, \ha6>>
MixOfFpC == <<\h98, \h23, \hf4, \hf6, \h62, \hc0, \hb8, \h18>>

\* C15: the mixer gives every input a value in [0, 2^64), the same whenever
\* the input is the same below 2^64, and the documented values: mix(0) = 0,
\* mix(1) = 0xb456bcfc34c2cb2c, mix(0x1234) = 11969492833970939502 and
\* mix(0x123456789ABCDEF0) = 0x18b8c062f6f42398.
C15_MixerValues ==
    m_pc \in {"mixed", "indexed"}
    => /\ IsU64(m_hk)
       /\ m_hk = _mix_u64(Mask64(m_in.x))
       /\ Mask64(m_in.x) = MixOf0 => m_hk = MixOf0
       /\ Mask64(m_in.x) = <<\h01, \h00, \h00, \h00, \h00, \h00, \h00, \h00>> => m_hk = MixOf1
       /\ m_in.x = FpA => m_hk = MixOfFpA
       /\ m_in.x = FpC => m_hk = MixOfFpC

C15_Witness_MixedWideInput ==
    /\ m_pc = "mixed"
    /\ Len(m_in.x) = 9
    /\ m_hk = MixOf1

\* (salt + 1) * 0x9E3779B97F4A7C15 mod 2^64 for salt = 0..4, written out
GoldenTimes ==
    << <<\h15, \h7c, \h4a, \h7f, \hb9, \h79, \h37, \h9e>>,
       <<\h2a, \hf8, \h94, \hfe, \h72, \hf3, \h6e, \h3c>>,
       <<\h3f, \h74, \hdf, \h7d, \h2c, \h6d, \ha6, \hda>>,
       <<\h54, \hf0, \h29, \hfd, \he5, \he6, \hdd, \h78>>,
       <<\h69, \h6c, \h74, \h7c, \h9f, \h60, \h15, \h17>> >>

RECURSIVE PowMod(_, _, _)
PowMod(b, n, m) == IF n = 0 THEN 1 % m ELSE (PowMod(b, n - 1, m) * b) % m

RECURSIVE WeightedSum(_, _, _)
WeightedSum(y, n, m) ==
    IF n = 0 THEN 0 ELSE (WeightedSum(y, n - 1, m) + y[n] * PowMod(256, n - 1, m)) % m

\* ((h XOR ((salt + 1) * K)) mod 2^64) mod dim, byte by byte
RefIndex(h, dim, salt) ==
    WeightedSum([n \in 1..8 |-> BitXor(h[n], GoldenTimes[salt + 1][n])], 8, dim)

\* C16: for a 64-bit h, a positive dim and a salt below num_hash_fns,
\* _bucket_index(h, dim, salt) is ((h XOR ((salt + 1) * 0x9E3779B97F4A7C15))
\* mod 2^64) mod dim, within [0, dim); for h = mix(0x1234) it is 635 for
\* (1024, 0), 580 for (1024, 1) and 3 for (10, 2).
C16_BucketIndexValues ==
    m_pc = "indexed"
    => /\ m_idx[1] >= 0
       /\ m_idx[1] < m_in.dim
       /\ m_idx[1] = RefIndex(m_hk, m_in.dim, m_in.salt)
       /\ (m_in.x = FpA /\ m_in.dim = 1024 /\ m_in.salt = 0) => m_idx[1] = 635
       /\ (m_in.x = FpA /\ m_in.dim = 1024 /\ m_in.salt = 1) => m_idx[1] = 580
       /\ (m_in.x = FpA /\ m_in.dim = 10 /\ m_in.salt = 2) => m_idx[1] = 3

C16_Witness_DocumentedIndex ==
    /\ m_pc = "indexed"
    /\ m_in = [x |-> FpA, dim |-> 10, salt |-> 2]
    /\ m_hk = MixOfFpA
    /\ m_idx = Some(3)

(***************************************************************************)
(* Properties of the countsketch accumulation (specification SpecVec).     *)
(***************************************************************************)
\* both loops are finished, the norm is not yet taken
LoopsDone == f_in.fn = "countsketch" /\ f_pc = "loop" /\ pos[1] > Len(f_in.query_mh)

RECURSIVE SumAbsOver(_, _)
SumAbsOver(f, S) ==
    IF S = {} THEN 0
    ELSE LET k == CHOOSE j \in S : TRUE IN Abs(f[k]) + SumAbsOver(f, S \ {k})

\* the increment the algorithm prescribes for fingerprint b and salt i
Prescribed(b, i, dim) ==
    [hash |-> b, salt |-> i,
     idx |-> Derived[b][i].idx[dim], sign |-> Derived[b][i].sign]

\* C17: while the loops run every coordinate is the sum of the signs added to
\* it so far; when they are done the accumulator has received, for each
\* fingerprint in turn and each salt i = 0..num_hash_fns-1 in turn, the
\* increment bucket_sign(mix(h XOR i), i) at bucket_index(mix(h XOR i), dim, i)
\* and nothing else, so the absolute coordinates sum to at most
\* |fingerprints| * num_hash_fns.
C17_AccumulatorIsSumOfSigns ==
    (f_in.fn = "countsketch" /\ f_pc = "loop")
    => /\ \A j \in (DOMAIN vector.nz) \cup {f_log[n].idx : n \in 1..Len(f_log)} :
            At(vector, j) = NetCount(f_log, j)
       /\ LoopsDone
            => LET nhf == Max(0, f_in.num_hash_fns)
               IN  /\ Len(f_log) = Len(f_in.query_mh) * nhf
                   /\ \A n \in 1..Len(f_in.query_mh), i \in 0..(nhf - 1) :
                        f_log[(n - 1) * nhf + i + 1]
                            = Prescribed(f_in.query_mh[n], i, cs_dim)
                   /\ SumAbsOver(vector.nz, DOMAIN vector.nz)
                        <= Cardinality(AsSet(f_in.query_mh)) * nhf

C17_Witness_SixIncrements ==
    /\ LoopsDone
    /\ f_in.query_mh = <<FpA, FpB>>
    /\ f_in.dim = Some(16)
    /\ f_in.num_hash_fns = 3
    /\ Len(f_log) = 6
    /\ DOMAIN vector.nz = {0, 4, 10, 13}

\* numeric order of two little-endian byte tuples of the same length
RECURSIVE LessFrom(_, _, _)
LessFrom(a, b, k) ==
    IF k = 0 THEN FALSE
    ELSE IF a[k] # b[k] THEN a[k] < b[k]
    ELSE LessFrom(a, b, k - 1)

Less64(a, b) == LessFrom(a, b, Len(a))

\* C18: a fingerprint is accumulated only after all smaller fingerprints of
\* the set have been accumulated, whatever order the sketch presents them in.
C18_AscendingFingerprintOrder ==
    f_in.fn = "countsketch"
    => \A n \in 1..Len(f_log) :
         \A b \in AsSet(f_in.query_mh) :
            Less64(b, f_log[n].hash) => \E m \in 1..(n - 1) : f_log[m].hash = b

\* the orders in which the fingerprints of the current sketch can be iterated
Reorderings == {other \in HashLists : AsSet(other) = AsSet(f_in.query_mh)}

\* C19: for a fixed fingerprint set, dim and num_hash_fns, iterating the
\* fingerprints in any other order gives the same accumulator before
\* normalization, and the same returned vector.
C19_IterationOrderIsIrrelevant ==
    /\ LoopsDone
         => \A other \in Reorderings :
              CountsketchLoop(Zeros(cs_dim), other, 1, 0,
                              f_in.num_hash_fns, cs_dim) = vector
    /\ FnReturned("countsketch")
         => \A other \in Reorderings :
              _vectorize_countsketch(other, f_in.dim, f_in.num_hash_fns)
                  = [ok |-> TRUE, value |-> f_out]

C19_Witness_UnsortedCollidingSketch ==
    /\ FnReturned("countsketch")
    /\ f_in.query_mh = <<FpC, FpB, FpA>>
    /\ f_in.dim = Some(2)
    /\ f_in.num_hash_fns = 3
    /\ Cardinality(Reorderings) = 6
    /\ divided

(***************************************************************************)
(* Properties of api_get (specification SpecHttp).                         *)
(***************************************************************************)
\* the requests of the current invocation, in order
RECURSIVE RequestsIn(_)
RequestsIn(log) ==
    IF log = <<>> THEN <<>>
    ELSE IF Head(log).ev = "get" THEN <<Head(log)>> \o RequestsIn(Tail(log))
    ELSE RequestsIn(Tail(log))

HandlerCalled == \E n \in 1..Len(a_sent) : a_sent[n].ev = "f"

\* at most max_tries requests per invocation
RequestBound == Len(RequestsIn(a_sent)) <= a_cfg.max_tries

\* the rest of the retry discipline
RetryDiscipline ==
    LET reqs == RequestsIn(a_sent)
    IN  /\ \A n \in 1..Len(reqs) :
            /\ reqs[n].url = UrlFor(a_cfg, a_query)
            /\ reqs[n].params = MergedParams(a_cfg, a_query, None)
            /\ n < Len(reqs) => reqs[n].outcome = "ConnectionError"
        /\ a_try > 0 => a_try < a_cfg.max_tries
        /\ a_try < Max(1, a_cfg.max_tries)
        /\ Len(reqs) <= Max(1, a_cfg.max_tries)
        /\ (a_pc = "get" /\ a_try > 0) => Len(reqs) = a_try
        /\ a_out = Raised("ConnectionError")
             => /\ a_pc = "raised"
                /\ Len(reqs) = Max(1, a_cfg.max_tries)
                /\ \A n \in 1..Len(reqs) : reqs[n].outcome = "ConnectionError"
        /\ (reqs # <<>> /\ reqs[Len(reqs)].outcome = "HTTPError")
             => /\ a_pc = "raised"
                /\ a_out = Raised("HTTPError")
                /\ ~HandlerCalled
        /\ (reqs # <<>> /\ reqs[Len(reqs)].outcome = "ok")
             => /\ a_pc = "returned"
                /\ HandlerCalled

\* C20: an invocation issues at most max_tries requests; it retries the same
\* request after a ConnectionError while the attempt count is below
\* max_tries, re-raises the ConnectionError after that, stops at the first
\* response, and raises an HTTP error status at once without calling f.
C20_AtMostMaxTriesRequests == RequestBound /\ RetryDiscipline

(***************************************************************************)
(* Properties of sketch_genome (specification SpecSketch).                 *)
(***************************************************************************)
\* the signature file of the outer call
OuterFile ==
    SketchFile(SketchDir(s_key[1].cache_dir), GenomeFile, DefaultN, DefaultK)

SketchReturned == s_pc = "returned"

Did(ev) == \E n \in 1..Len(s_log) : s_log[n].ev = ev

\* at most one nested call, and every step is at the outer call's file
RecursesAtMostOnce ==
    /\ s_depth <= 1
    /\ Len(s_log) <= 3
    /\ \A n \in 1..Len(s_log) : s_log[n].file = OuterFile
    /\ s_key # None => CurrentFile = OuterFile

\* a whole file and no force: the cached sketch is returned, nothing is computed
CachedFileIsNotRecomputed ==
    (SketchReturned /\ ~s_key[1].force /\ s_start = Some("good"))
        => ~Did("compute") /\ s_out = Some(Sketched)

\* a load that raised ValueError is followed by one regeneration that
\* overwrites the file
FallbackRegenerates ==
    (SketchReturned /\ Did("ValueError"))
        => /\ s_log = <<SketchEvent("ValueError", s_dir[1]),
                        SketchEvent("compute", s_dir[1]),
                        SketchEvent("write", s_dir[1])>>
           /\ s_fs[OuterFile] = "good"
           /\ s_out = Some(Sketched)

\* no file, or force: the sketch is computed and the file written before
\* the return
ForcedOrMissingIsComputed ==
    (SketchReturned /\ (s_key[1].force \/ s_start = Some("absent")))
        => /\ s_log = <<SketchEvent("compute", s_dir[1]),
                        SketchEvent("write", s_dir[1])>>
           /\ s_out = Some(Sketched)

SignatureFileExists == SketchReturned => s_fs[OuterFile] # "absent"

\* C21: sketch_genome ends after at most one nested call; a whole cached file
\* is loaded without recomputing when force is false; a load that raises
\* ValueError is followed by exactly one regeneration at the same location
\* that overwrites the file and is returned; with no file or with force the
\* sketch is computed and written before the return; after a return the
\* signature file exists.
C21_SketchGenomeFallsBackOnce ==
    /\ RecursesAtMostOnce
    /\ CachedFileIsNotRecomputed
    /\ FallbackRegenerates
    /\ ForcedOrMissingIsComputed
    /\ SignatureFileExists

=============================================================================
